---- MODULE Spec2Model ----
(***************************************************************************)
(* Model of src/src/grid.rs: the Grid of display cells, its diff against   *)
(* another Grid, its full enumeration, the overlay of one Grid onto        *)
(* another (update) and the painting of a border line (set_border).        *)
(*                                                                         *)
(* A Grid is its `rows`: a sequence of rows, each a sequence of Cells.     *)
(* The code indexes from 0, TLA+ sequences from 1: the cell the code calls *)
(* rows[r][c] is rows[r + 1][c + 1] here.  A panic (an index out of        *)
(* bounds) is the outcome `panicked`; the receiver of update and           *)
(* set_border is moved into the call, so a panicking call returns nothing. *)
(***************************************************************************)
EXTENDS Integers, Sequences, FiniteSets

VARIABLES
    grid,      \* the caller's Grid: what new, update and set_border return replaces it
    other,     \* a second Grid: the other side of a diff, the `other` of update
    cells,     \* the Vec<PositionedCell> the last diff or to_position_cells returned
    dimension, \* the Dimension the last dimension() lookup returned
    call,      \* the call made last: its name, its receiver before the call, its arguments
    returned,  \* whether the last call returned (FALSE: it panicked)
    created,   \* the Dimension given to the Grid::new that built `grid`
    budget     \* how many more calls the caller makes

vars == <<grid, other, cells, dimension, call, returned, created, budget>>

\* The largest height and width of a Grid, and the largest coordinate of an
\* origin or a border start (one past the last index of the largest Grid).
MaxDim == 2

\* The number of calls in a row the caller makes in SeqSpec.
MaxCalls == 2

\* u16 holds 0 .. U16 - 1; `as u16` keeps the low 16 bits.
U16 == 65536

---------------------------------------------------------------------------
\* Cells

Colors == {"White", "Black"}

Cell(symbol, foreground_color, background_color) ==
    [symbol |-> symbol,
     foreground_color |-> foreground_color,
     background_color |-> background_color]

\* impl Default for Cell
DefaultCell == Cell(" ", "White", "White")

\* Cell::from_char
from_char(c) == Cell(c, "White", "White")

\* The cells set_border writes: Cell { symbol, foreground_color: Black, ..Cell::default() }
\* (the glyphs are named by their code points: U+2500 is the horizontal line,
\* U+2502 the vertical line)
HorizontalCell == [DefaultCell EXCEPT !.symbol = "U+2500", !.foreground_color = "Black"]
VerticalCell == [DefaultCell EXCEPT !.symbol = "U+2502", !.foreground_color = "Black"]

\* The cells a caller writes into a Grid: the default, a letter, and cells
\* that differ from the default in one colour only.
Palette ==
    {DefaultCell, from_char("a"), Cell(" ", "Black", "White"), Cell(" ", "White", "Black")}

PositionedCell(cell, row, column) ==
    [cell |-> cell, position |-> [row |-> row, column |-> column]]

---------------------------------------------------------------------------
\* Grids

Dimensions == [height : 0..MaxDim, width : 0..MaxDim]

\* Grid::new: `height` rows of `width` default cells
New(dim) ==
    [r \in 1..dim.height |-> [c \in 1..dim.width |-> DefaultCell]]

\* rows.get(row_index).map(|row| row.get(column_index)).flatten(): the Option
\* is the empty sequence (None) or a sequence of one Cell (Some)
Get(rows, row_index, column_index) ==
    IF row_index < Len(rows)
    THEN IF column_index < Len(rows[row_index + 1])
         THEN <<rows[row_index + 1][column_index + 1]>>
         ELSE <<>>
    ELSE <<>>

\* A faulty variant: rows[row].insert(column, cell), which lengthens the row
IndexInsert(rows, row, column, cell) ==
    IF row < Len(rows) /\ column <= Len(rows[row + 1])
    THEN [rows |-> [rows EXCEPT ![row + 1] =
                        SubSeq(@, 1, column) \o <<cell>> \o SubSeq(@, column + 1, Len(@))],
          panicked |-> FALSE]
    ELSE [rows |-> rows, panicked |-> TRUE]

\* rows[row][column] = cell: the assignment panics when the row or the
\* column is out of bounds, and never changes a length
IndexAssign(rows, row, column, cell) ==
    IF row < Len(rows) /\ column < Len(rows[row + 1])
    THEN [rows |-> [rows EXCEPT ![row + 1][column + 1] = cell], panicked |-> FALSE]
    ELSE [rows |-> rows, panicked |-> TRUE]

\* Grid::dimension: rows[0] panics on a Grid without rows; `as u16` keeps the
\* low 16 bits of each length
Dimension(self) ==
    IF Len(self) = 0
    THEN [panicked |-> TRUE, height |-> 0, width |-> 0]
    ELSE [panicked |-> FALSE, height |-> Len(self) % U16, width |-> Len(self[1]) % U16]

\* Grid::to_position_cells: the loop over the rows and, in each, its cells,
\* from (row_index, column_index) on, pushing every cell
RECURSIVE PositionCellsFrom(_, _, _)
PositionCellsFrom(self, row_index, column_index) ==
    IF row_index >= Len(self) THEN <<>>
    ELSE IF column_index >= Len(self[row_index + 1])
    THEN PositionCellsFrom(self, row_index + 1, 0)
    ELSE <<PositionedCell(self[row_index + 1][column_index + 1], row_index, column_index)>>
         \o PositionCellsFrom(self, row_index, column_index + 1)

\* A faulty variant: Point::new(column_index, row_index)
ToPositionCellsTransposed(self) ==
    [i \in 1..Len(PositionCellsFrom(self, 0, 0)) |->
        LET e == PositionCellsFrom(self, 0, 0)[i]
        IN  PositionedCell(e.cell, e.position.column, e.position.row)]

ToPositionCells(self) == PositionCellsFrom(self, 0, 0)

\* Grid::diff: the same loop over new_grid, pushing a cell unless self holds
\* an equal cell at its position
RECURSIVE DiffFrom(_, _, _, _)
DiffFrom(self, new_grid, row_index, column_index) ==
    IF row_index >= Len(new_grid) THEN <<>>
    ELSE IF column_index >= Len(new_grid[row_index + 1])
    THEN DiffFrom(self, new_grid, row_index + 1, 0)
    ELSE LET new_cell == new_grid[row_index + 1][column_index + 1]
             old_cell == Get(self, row_index, column_index)
             pushed == IF old_cell # <<>> /\ new_cell = old_cell[1]
                       THEN <<>>
                       ELSE <<PositionedCell(new_cell, row_index, column_index)>>
         IN  pushed \o DiffFrom(self, new_grid, row_index, column_index + 1)

\* A faulty variant: the cells are compared by symbol alone
DiffBySymbol(self, new_grid) ==
    SelectSeq(PositionCellsFrom(new_grid, 0, 0),
              LAMBDA e :
                  LET old_cell == Get(self, e.position.row, e.position.column)
                  IN  old_cell = <<>> \/ old_cell[1].symbol # e.cell.symbol)

\* A faulty variant: the guard is inverted (new_cell != old_cell)
DiffInverted(self, new_grid) ==
    SelectSeq(PositionCellsFrom(new_grid, 0, 0),
              LAMBDA e :
                  LET old_cell == Get(self, e.position.row, e.position.column)
                  IN  old_cell = <<>> \/ old_cell[1] = e.cell)

\* A faulty variant: the guard is missing, every cell of new_grid is pushed
DiffAll(self, new_grid) == PositionCellsFrom(new_grid, 0, 0)

Diff(self, new_grid) == DiffFrom(self, new_grid, 0, 0)

\* Grid::update: the loop over other's rows and cells from (row_index,
\* column_index) on; it stops at the first assignment that panics, with the
\* cells written so far in place
RECURSIVE UpdateFrom(_, _, _, _, _)
UpdateFrom(rows, other_rows, origin, row_index, column_index) ==
    IF row_index >= Len(other_rows) THEN [rows |-> rows, panicked |-> FALSE]
    ELSE IF column_index >= Len(other_rows[row_index + 1])
    THEN UpdateFrom(rows, other_rows, origin, row_index + 1, 0)
    ELSE LET written == IndexAssign(rows, row_index + origin.row,
                                    column_index + origin.column,
                                    other_rows[row_index + 1][column_index + 1])
         IN  IF written.panicked THEN written
             ELSE UpdateFrom(written.rows, other_rows, origin, row_index, column_index + 1)

\* A faulty variant: the column offset is dropped (rows[row_index + origin.row][column_index])
UpdateNoColumnOffset(self, other_grid, rectangle) ==
    UpdateFrom(self, other_grid, [rectangle.origin EXCEPT !.column = 0], 0, 0)

\* Only rectangle.origin is read: the rectangle's size plays no part.  The
\* sums row_index + origin.row and column_index + origin.column are usize
\* sums of small numbers and do not overflow.
Update(self, other_grid, rectangle) ==
    UpdateFrom(self, other_grid, rectangle.origin, 0, 0)

\* u16::saturating_sub
saturating_sub(a, b) == IF a >= b THEN a - b ELSE 0

\* set_border's loops: for i in i..n, one assignment each
RECURSIVE HorizontalFrom(_, _, _, _)
HorizontalFrom(rows, start, i, n) ==
    IF i >= n THEN [rows |-> rows, panicked |-> FALSE]
    ELSE LET written == IndexAssign(rows, start.row, start.column + i, HorizontalCell)
         IN  IF written.panicked THEN written
             ELSE HorizontalFrom(written.rows, start, i + 1, n)

RECURSIVE VerticalFrom(_, _, _, _)
VerticalFrom(rows, start, i, n) ==
    IF i >= n THEN [rows |-> rows, panicked |-> FALSE]
    ELSE LET written == IndexAssign(rows, start.row + i, start.column, VerticalCell)
         IN  IF written.panicked THEN written
             ELSE VerticalFrom(written.rows, start, i + 1, n)

\* A faulty variant: the two loops' extents are swapped (height for width)
SetBorderSwappedExtent(self, border) ==
    LET dim == Dimension(self) IN
    IF dim.panicked THEN [rows |-> self, panicked |-> TRUE]
    ELSE IF border.direction = "Horizontal"
    THEN HorizontalFrom(self, border.start, 0,
                        saturating_sub(dim.height, border.start.column % U16))
    ELSE VerticalFrom(self, border.start, 0,
                      saturating_sub(dim.width, border.start.row % U16))

\* Grid::set_border: the dimension lookup first, then the loop of the
\* border's direction over 0 .. (width or height) saturating_sub (start as u16)
SetBorder(self, border) ==
    LET dim == Dimension(self) IN
    IF dim.panicked THEN [rows |-> self, panicked |-> TRUE]
    ELSE IF border.direction = "Horizontal"
    THEN HorizontalFrom(self, border.start, 0,
                        saturating_sub(dim.width, border.start.column % U16))
    ELSE VerticalFrom(self, border.start, 0,
                      saturating_sub(dim.height, border.start.row % U16))

---------------------------------------------------------------------------
\* The caller

Height(rows) == Len(rows)

\* The length of the rows (0 for a Grid without rows)
Width(rows) == IF Len(rows) = 0 THEN 0 ELSE Len(rows[1])

Coords == 0..MaxDim

Points == [row : Coords, column : Coords]

Shape(rows) == [height |-> Height(rows), width |-> Width(rows)]

\* Rectangle: an origin and a size.  The caller lays a rectangle out with the
\* size of the Grid it places, of the Grid it places it on, or of one cell.
Rectangles(self, other_grid) ==
    {[origin |-> origin, height |-> size.height, width |-> size.width] :
        origin \in Points,
        size \in {Shape(other_grid), Shape(self), [height |-> 1, width |-> 1]}}

Borders == [start : Points, direction : {"Horizontal", "Vertical"}]

NoRectangle == [origin |-> [row |-> 0, column |-> 0], height |-> 0, width |-> 0]

NoBorder == [start |-> [row |-> 0, column |-> 0], direction |-> "Horizontal"]

NoDimension == [height |-> 0, width |-> 0]

NoCall ==
    [op |-> "none", self |-> <<>>, other |-> <<>>, dim |-> NoDimension,
     rectangle |-> NoRectangle, border |-> NoBorder]

\* The Grids a caller holds before the calls modelled here: Grid::new(dim),
\* with at most one cell overwritten by a cell of the Palette
Buffers ==
    UNION {{New(dim)} \cup
           {IndexAssign(New(dim), r, c, cell).rows :
                r \in 0..(dim.height - 1), c \in 0..(dim.width - 1), cell \in Palette}
           : dim \in Dimensions}

\* A Grid of one letter
Letter == IndexAssign(New([height |-> 1, width |-> 1]), 0, 0, from_char("a")).rows

\* Spec: two Grids a caller holds, and one call on them
Init ==
    /\ grid \in Buffers
    /\ other \in Buffers
    /\ cells = <<>>
    /\ dimension = NoDimension
    /\ call = NoCall
    /\ returned = TRUE
    /\ created \in {dim \in Dimensions : New(dim) = New(Shape(grid))}
    /\ budget = 1

\* SeqSpec: a Grid fresh from Grid::new, and MaxCalls calls in a row on it
SeqInit ==
    /\ created \in Dimensions
    /\ grid = New(created)
    /\ other = Letter
    /\ cells = <<>>
    /\ dimension = NoDimension
    /\ call = NoCall
    /\ returned = TRUE
    /\ budget = MaxCalls

\* A call is made while the caller has calls left and no call has panicked
CanCall == returned /\ budget > 0

\* grid = Grid::new(dim)
CallNew ==
    /\ CanCall
    /\ \E dim \in Dimensions :
        /\ grid' = New(dim)
        /\ created' = dim
        /\ call' = [NoCall EXCEPT !.op = "new", !.self = grid, !.dim = dim]
    /\ returned' = TRUE
    /\ budget' = budget - 1
    /\ UNCHANGED <<other, cells, dimension>>

\* cells = old.diff(&new), each of old and new one of the caller's two Grids
CallDiff ==
    /\ CanCall
    /\ \E old \in {grid, other}, new \in {grid, other} :
        /\ cells' = Diff(old, new)
        /\ call' = [NoCall EXCEPT !.op = "diff", !.self = old, !.other = new]
    /\ returned' = TRUE
    /\ budget' = budget - 1
    /\ UNCHANGED <<grid, other, dimension, created>>

\* cells = g.to_position_cells(), g one of the caller's two Grids
CallToPositionCells ==
    /\ CanCall
    /\ \E g \in {grid, other} :
        /\ cells' = ToPositionCells(g)
        /\ call' = [NoCall EXCEPT !.op = "to_position_cells", !.self = g]
    /\ returned' = TRUE
    /\ budget' = budget - 1
    /\ UNCHANGED <<grid, other, dimension, created>>

\* dimension = g.dimension(), g one of the caller's two Grids
CallDimension ==
    /\ CanCall
    /\ \E g \in {grid, other} :
        LET dim == Dimension(g) IN
        /\ returned' = ~dim.panicked
        /\ dimension' = IF dim.panicked THEN dimension
                         ELSE [height |-> dim.height, width |-> dim.width]
        /\ call' = [NoCall EXCEPT !.op = "dimension", !.self = g]
    /\ budget' = budget - 1
    /\ UNCHANGED <<grid, other, cells, created>>

\* grid = grid.update(&other, rectangle): on a panic `grid` is left as the
\* loop had it, and `returned` is FALSE
CallUpdate ==
    /\ CanCall
    /\ \E rectangle \in Rectangles(grid, other) :
        LET result == Update(grid, other, rectangle) IN
        /\ grid' = result.rows
        /\ returned' = ~result.panicked
        /\ call' = [NoCall EXCEPT !.op = "update", !.self = grid, !.other = other,
                                   !.rectangle = rectangle]
    /\ budget' = budget - 1
    /\ UNCHANGED <<other, cells, dimension, created>>

\* grid = grid.set_border(border)
CallSetBorder ==
    /\ CanCall
    /\ \E border \in Borders :
        LET result == SetBorder(grid, border) IN
        /\ grid' = result.rows
        /\ returned' = ~result.panicked
        /\ call' = [NoCall EXCEPT !.op = "set_border", !.self = grid, !.border = border]
    /\ budget' = budget - 1
    /\ UNCHANGED <<other, cells, dimension, created>>

Next ==
    \/ CallNew
    \/ CallDiff
    \/ CallToPositionCells
    \/ CallDimension
    \/ CallUpdate
    \/ CallSetBorder

Spec == Init /\ [][Next]_vars

SeqSpec == SeqInit /\ [][Next]_vars

---------------------------------------------------------------------------
\* Properties

\* The coordinates of a Grid
Positions(rows) ==
    {[row |-> r, column |-> c] : r \in 0..(Height(rows) - 1), c \in 0..(Width(rows) - 1)}

At(rows, p) == Get(rows, p.row, p.column)

\* p comes before q in row-major order
RowMajorBefore(p, q) ==
    p.row < q.row \/ (p.row = q.row /\ p.column < q.column)

\* Two cells differ in symbol, foreground or background
Differs(a, b) ==
    \/ a.symbol # b.symbol
    \/ a.foreground_color # b.foreground_color
    \/ a.background_color # b.background_color

Emitted(p) == \E i \in 1..Len(cells) : cells[i].position = p

SameShape(a, b) == Height(a) = Height(b) /\ Width(a) = Width(b)

\* C1: old.diff(new) is new's positions in row-major order, keeping (r, c)
\* if and only if old has no cell at (r, c) or old's cell there differs from
\* new's in symbol, foreground or background; each entry carries new's cell
\* at its position, so no entry lies outside new; the order is strict, so
\* no position appears twice.
C1_DiffKeepsChangedInRowMajorOrder ==
    call.op = "diff" =>
        /\ \A i \in 1..Len(cells) : At(call.other, cells[i].position) = <<cells[i].cell>>
        /\ \A i, j \in 1..Len(cells) :
                i < j => RowMajorBefore(cells[i].position, cells[j].position)
        /\ \A p \in Positions(call.other) :
                Emitted(p) <=>
                    \/ At(call.self, p) = <<>>
                    \/ Differs(At(call.self, p)[1], At(call.other, p)[1])

\* A diff of Grids of different shapes that keeps a position old lacks and a
\* position where old differs, and drops a position where the cells agree
C1_Witness ==
    /\ call.op = "diff"
    /\ ~SameShape(call.self, call.other)
    /\ \E p \in Positions(call.other) : Emitted(p) /\ At(call.self, p) = <<>>
    /\ \E p \in Positions(call.other) : Emitted(p) /\ At(call.self, p) # <<>>
    /\ \E p \in Positions(call.other) : ~Emitted(p)

\* C6: g.diff(g) is the empty list.
C6_DiffOfSelfIsEmpty ==
    (call.op = "diff" /\ call.self = call.other) => cells = <<>>

\* A diff of a Grid of four cells, one of them written, against itself
C6_Witness ==
    /\ call.op = "diff"
    /\ call.self = call.other
    /\ Height(call.self) = 2 /\ Width(call.self) = 2
    /\ \E p \in Positions(call.self) : At(call.self, p) # <<DefaultCell>>

\* C7: g.to_position_cells() has height x width entries, the k-th
\* (from 0) at row k / width and column k % width with g's cell there:
\* every coordinate once, in row-major order.
C7_PositionCellsAreEveryCellInRowMajorOrder ==
    call.op = "to_position_cells" =>
        LET g == call.self
            w == Width(g)
        IN  /\ Len(cells) = Height(g) * w
            /\ \A k \in 0..(Len(cells) - 1) :
                    cells[k + 1] =
                        [cell |-> g[(k \div w) + 1][(k % w) + 1],
                         position |-> [row |-> k \div w, column |-> k % w]]
            /\ \A p \in Positions(g) : Cardinality({i \in 1..Len(cells) : cells[i].position = p}) = 1

\* The enumeration of a Grid of two rows of two cells, one of them written
C7_Witness ==
    /\ call.op = "to_position_cells"
    /\ Height(call.self) = 2 /\ Width(call.self) = 2
    /\ Len(cells) = 4
    /\ \E i \in 1..Len(cells) : cells[i].cell # DefaultCell

\* `rows` with the cell of each entry written at the entry's position
RECURSIVE Apply(_, _)
Apply(rows, entries) ==
    IF entries = <<>> THEN rows
    ELSE Apply([rows EXCEPT ![entries[1].position.row + 1][entries[1].position.column + 1] =
                                entries[1].cell],
               Tail(entries))

\* The entries but the i-th
Without(entries, i) ==
    SubSeq(entries, 1, i - 1) \o SubSeq(entries, i + 1, Len(entries))

\* C10: for old and new of equal dimensions, writing the entries of
\* old.diff(new) into old gives new; every entry carries a cell that
\* differs from old's at its position, and without any one entry the
\* result is not new.
C10_DiffAppliedGivesNewAndIsMinimal ==
    (call.op = "diff" /\ SameShape(call.self, call.other)) =>
        /\ Apply(call.self, cells) = call.other
        /\ \A i \in 1..Len(cells) :
                /\ At(call.self, cells[i].position) # <<>>
                /\ At(call.self, cells[i].position) # <<cells[i].cell>>
                /\ Apply(call.self, Without(cells, i)) # call.other

\* A diff of two Grids of two rows of two cells with two entries
C10_Witness ==
    /\ call.op = "diff"
    /\ SameShape(call.self, call.other)
    /\ Height(call.self) = 2 /\ Width(call.self) = 2
    /\ Len(cells) = 2

\* update's precondition: other, placed at the rectangle's origin, lies within self
UpdateInBounds ==
    /\ call.rectangle.origin.row + Height(call.other) <= Height(call.self)
    /\ call.rectangle.origin.column + Width(call.other) <= Width(call.self)

\* p lies in the region of `height` rows and `width` columns at `origin`
InRegion(p, origin, height, width) ==
    /\ origin.row <= p.row /\ p.row < origin.row + height
    /\ origin.column <= p.column /\ p.column < origin.column + width

\* After update: inside the region of `height` x `width` at the rectangle's
\* origin `grid` holds other's cell at (row - origin.row, column -
\* origin.column), outside it the cell self held
Overlaid(height, width) ==
    \A p \in Positions(call.self) :
        IF InRegion(p, call.rectangle.origin, height, width)
        THEN At(grid, p) = Get(call.other, p.row - call.rectangle.origin.row,
                               p.column - call.rectangle.origin.column)
        ELSE At(grid, p) = At(call.self, p)

\* C2 as stated: the overlay region is the rectangle's origin with the
\* rectangle's size.
C2_OverlaidWithinRectangleSize ==
    (call.op = "update" /\ UpdateInBounds) =>
        (returned /\ Overlaid(call.rectangle.height, call.rectangle.width))

\* C2, amended: under the bounds precondition update returns, and the
\* overlay region is the rectangle's origin with other's height and width:
\* inside it the Grid returned holds other's cells, outside it self's.
C2_OverlaidWithinOtherExtent ==
    (call.op = "update" /\ UpdateInBounds) =>
        (returned /\ Overlaid(Height(call.other), Width(call.other)))

\* An update within bounds, away from the origin, that changed self and
\* left a written cell of self outside the region
C2_Witness ==
    /\ call.op = "update"
    /\ UpdateInBounds
    /\ returned
    /\ grid # call.self
    /\ call.rectangle.origin.row + call.rectangle.origin.column > 0
    /\ \E p \in Positions(call.self) :
            /\ ~InRegion(p, call.rectangle.origin, Height(call.other), Width(call.other))
            /\ At(call.self, p) # <<DefaultCell>>
            /\ At(grid, p) = At(call.self, p)

\* C3: an update whose precondition is violated ends in a fault and returns
\* no Grid.
C3_UpdateOutOfBoundsFaults ==
    (call.op = "update" /\ ~UpdateInBounds) => ~returned

\* The border's start lies inside self
StartInside ==
    /\ call.border.start.row < Height(call.self)
    /\ call.border.start.column < Width(call.self)

\* C4: on a Grid with a row, set_border with a start at or beyond the
\* Grid's extent does not fault and returns the Grid cell for cell.
C4_BorderOutsideIsNoOp ==
    (call.op = "set_border" /\ Height(call.self) >= 1 /\ ~StartInside) =>
        (returned /\ grid = call.self)

\* C5: on a Grid without rows the dimension lookup does not fault and
\* reports height 0 and width 0, and set_border does not fault.
C5_ZeroHeightDimensionIsZero ==
    /\ (call.op = "dimension" /\ Height(call.self) = 0) =>
            (returned /\ dimension = [height |-> 0, width |-> 0])
    /\ (call.op = "set_border" /\ Height(call.self) = 0) => returned

\* The cells a border of `border` covers in a Grid: from the start to the
\* edge, along the start's row or down the start's column
OnBorder(p, border) ==
    IF border.direction = "Horizontal"
    THEN p.row = border.start.row /\ p.column >= border.start.column
    ELSE p.column = border.start.column /\ p.row >= border.start.row

\* C9: set_border with the start inside the Grid returns the Grid with
\* exactly the cells from the start to the edge overwritten (the start's
\* row, rightwards, or the start's column, downwards), each with the line
\* glyph of the direction, black foreground and the default background;
\* every other cell is unchanged.
C9_BorderPaintsFromStartToEdge ==
    (call.op = "set_border" /\ StartInside) =>
        /\ returned
        /\ SameShape(grid, call.self)
        /\ \A p \in Positions(call.self) :
                IF OnBorder(p, call.border)
                THEN At(grid, p) =
                        <<Cell(IF call.border.direction = "Horizontal" THEN "U+2500" ELSE "U+2502",
                               "Black", DefaultCell.background_color)>>
                ELSE At(grid, p) = At(call.self, p)

\* A horizontal border from the second column of a Grid of two rows of two
\* cells that holds a written cell off the border
C9_Witness ==
    /\ call.op = "set_border"
    /\ StartInside
    /\ returned
    /\ call.border.direction = "Horizontal"
    /\ call.border.start.column = 1
    /\ Height(call.self) = 2 /\ Width(call.self) = 2
    /\ \E p \in Positions(call.self) :
            ~OnBorder(p, call.border) /\ At(grid, p) # <<DefaultCell>>

\* C8: a Grid from Grid::new(dim) has dim.height rows of dim.width default
\* cells, and after any calls of update and set_border that returned it
\* still has dim.height rows, each of dim.width cells.
C8_DimensionIsFixed ==
    returned =>
        /\ Height(grid) = created.height
        /\ \A r \in 1..Len(grid) : Len(grid[r]) = created.width
        /\ call.op \in {"none", "new"} =>
                \A r \in 1..Len(grid) : \A c \in 1..Len(grid[r]) : grid[r][c] = DefaultCell

\* A Grid of two rows of two cells after an update and a set_border that
\* both returned: it holds other's letter and a border cell
C8_Witness ==
    /\ returned
    /\ budget = 0
    /\ created = [height |-> 2, width |-> 2]
    /\ \E p \in Positions(grid) : At(grid, p) = <<from_char("a")>>
    /\ \E p \in Positions(grid) : At(grid, p)[1].foreground_color = "Black"

====
